---------------------------- MODULE Spec2Model ----------------------------
(***************************************************************************)
(* Model of the Camera node of whack_a_mole (camera.py).                   *)
(*                                                                         *)
(* The node owns an OpenCVClient (frame buffers, camera intrinsics and the *)
(* per-colour centroid histories `running_avg`), the shared fallback point *)
(* `prev_xyz` and the flag `update_colors`.  rclpy.spin runs the callbacks *)
(* (three subscriptions, one service, one timer) one at a time.            *)
(*                                                                         *)
(* Images are sequences of rows of pixels (img[y+1][x+1] is pixel (x,y));  *)
(* an image that has not been received is the empty sequence (shape[0] =   *)
(* 0).  A colour pixel is carried as its HSV triple (the BGR->HSV colour   *)
(* conversion of cv2 is outside the repository).  Depth and colour images  *)
(* have equal dimensions (the depth topic is the one aligned to colour).   *)
(*                                                                         *)
(* whack_a_mole.constants and whack_a_mole.mole_detection are not among    *)
(* the sources; COLORS, COLORS_HSV, the shape of running_avg,              *)
(* find_centroid_cropped and get_3d_coordinates_at_pixel follow the        *)
(* written specification of the pipeline.                                  *)
(***************************************************************************)
EXTENDS Integers, Sequences, FiniteSets, TLC

\* ------------------------------------------------------------------ bounds
\* capacity of each colour's centroid history (rows of running_avg per colour)
HistLen == 3
\* width and height of the camera images
ImgW == 3
ImgH == 3

\* --------------------------------------------------------------- parameters
clipping_distance == 1400
box_start_x == 0
box_start_y == 0
box_end_x == 2
box_end_y == 3

crop == << <<box_start_x, box_start_y>>, <<box_end_x, box_end_y>> >>

\* ------------------------------------------------------------ colour tables
\* iteration order of COLORS_HSV.keys()
ColorOrder == << "red", "green" >>

NumColors == Len(ColorOrder)

Colors == { ColorOrder[k] : k \in 1..NumColors }

\* colour name -> row of running_avg
COLORS == [c \in Colors |-> IF c = "red" THEN 0 ELSE 1]

\* colour name -> sequence of (lower, upper) HSV bounds; red wraps around hue
COLORS_HSV ==
  [c \in Colors |->
     IF c = "red"
       THEN << << <<0, 100, 100>>, <<10, 255, 255>> >>,
               << <<170, 100, 100>>, <<180, 255, 255>> >> >>
       ELSE << << <<40, 100, 100>>, <<80, 255, 255>> >> >>]

ChildFrame == [c \in Colors |-> IF c = "red" THEN "red_frame" ELSE "green_frame"]

\* ------------------------------------------------------------------- inputs
Black == <<0, 0, 0>>
Background == <<0, 0, 60>>
RedLow == <<5, 200, 200>>
RedHigh == <<175, 200, 200>>
Green == <<60, 200, 200>>

EmptyImage == << >>

\* colour image: red in its low hue band at (1,1), green at (1,2)
ColorImageA ==
  [r \in 1..ImgH |-> [k \in 1..ImgW |->
     IF <<k - 1, r - 1>> = <<1, 1>> THEN RedLow
     ELSE IF <<k - 1, r - 1>> = <<1, 2>> THEN Green ELSE Background]]

\* colour image: red in its high hue band at (1,2), green at (2,1), which is
\* outside the region of interest
ColorImageB ==
  [r \in 1..ImgH |-> [k \in 1..ImgW |->
     IF <<k - 1, r - 1>> = <<1, 2>> THEN RedHigh
     ELSE IF <<k - 1, r - 1>> = <<2, 1>> THEN Green ELSE Background]]

\* colour image: red on the left border, at (0,1); no green
ColorImageC ==
  [r \in 1..ImgH |-> [k \in 1..ImgW |->
     IF <<k - 1, r - 1>> = <<0, 1>> THEN RedLow ELSE Background]]

ColorImages == {ColorImageA, ColorImageB, ColorImageC}

\* depth image: everything at 500
DepthImageNear == [r \in 1..ImgH |-> [k \in 1..ImgW |-> 500]]

\* depth image: no return at (1,1), beyond the clipping distance at (1,2)
DepthImageHoles ==
  [r \in 1..ImgH |-> [k \in 1..ImgW |->
     IF <<k - 1, r - 1>> = <<1, 1>> THEN 0
     ELSE IF <<k - 1, r - 1>> = <<1, 2>> THEN 2000 ELSE 500]]

DepthImages == {DepthImageNear, DepthImageHoles}

\* CameraInfo.k reduced to (fx, fy, cx, cy)
NoIntrinsics == [fx |-> 0, fy |-> 0, cx |-> 0, cy |-> 0]

Intrinsics == { [fx |-> 1, fy |-> 1, cx |-> 1, cy |-> 1] }

VARIABLES
  color_image,        \* cv2_client.color_image
  depth_image,        \* cv2_client.depth_image
  camera_intrinsics,  \* cv2_client.camera_intrinsics
  running_avg,        \* cv2_client.running_avg: row -> history of centroids
  prev_xyz,           \* last valid deprojection, shared by the colours
  update_colors,      \* toggled by the toggle_tf_publish service
  pc,                 \* "idle", or the position of the running timer callback
  i,                  \* index in ColorOrder of the colour being processed
  tf_out,             \* transforms sent by the running timer callback
  image_pub,          \* filtered images published by the running callback
  tick_in,            \* what the buffers and the flag held when it began
  frozen,             \* the histories when update_colors was last true
  ever_found,         \* colours whose centroid search has ever succeeded
  toggles,            \* toggle_tf_publish requests served so far, modulo 2
  valid_seen          \* whether any deprojection has been valid so far

vars == << color_image, depth_image, camera_intrinsics, running_avg, prev_xyz,
           update_colors, pc, i, tf_out, image_pub, tick_in, frozen,
           ever_found, toggles, valid_seen >>

\* ------------------------------------------------------------ numpy helpers
Range(s) == { s[k] : k \in DOMAIN s }

\* k-th smallest element of a non-empty sequence of integers
Kth(s, k) ==
  CHOOSE v \in Range(s) :
    /\ Cardinality({ j \in DOMAIN s : s[j] < v }) < k
    /\ k <= Cardinality({ j \in DOMAIN s : s[j] <= v })

\* int(a / 2) as numpy converts a float to dtype=int: towards zero
HalfTrunc(a) == IF a >= 0 THEN a \div 2 ELSE -((-a) \div 2)

\* np.array(np.median(s), dtype=int)
MedianInt(s) ==
  IF Len(s) % 2 = 1
    THEN Kth(s, (Len(s) + 1) \div 2)
    ELSE HalfTrunc(Kth(s, Len(s) \div 2) + Kth(s, Len(s) \div 2 + 1))

\* variant: the medians are taken over the wrong axis of each sample
MedianCentroidSwapped(h) ==
  << MedianInt([k \in DOMAIN h |-> h[k][2]]),
     MedianInt([k \in DOMAIN h |-> h[k][1]]) >>

\* np.array(np.median(history, axis=0), dtype=int)
MedianCentroid(h) ==
  << MedianInt([k \in DOMAIN h |-> h[k][1]]),
     MedianInt([k \in DOMAIN h |-> h[k][2]]) >>

\* sum of the k-th coordinates of a finite set of pixels
RECURSIVE SumCoord(_, _)
SumCoord(S, k) ==
  IF S = {} THEN 0
  ELSE LET e == CHOOSE e \in S : TRUE IN e[k] + SumCoord(S \ {e}, k)

\* ------------------------------------------------------- find_color_centroid
\* the colour image with every pixel whose depth is beyond the clipping
\* distance, or not positive, set to black
BgRemoved ==
  [r \in 1..Len(color_image) |-> [k \in 1..Len(color_image[r]) |->
     IF depth_image[r][k] > clipping_distance \/ depth_image[r][k] <= 0
       THEN Black
       ELSE color_image[r][k]]]

\* cv2.inRange on one pixel
InRange(p, lower, upper) == \A ch \in 1..3 : lower[ch] <= p[ch] /\ p[ch] <= upper[ch]

\* the pixels (x, y) that are on in the mask of colour c; the masks of a
\* colour with two HSV ranges are added
Mask(c) ==
  LET bg_removed == BgRemoved
  IN { xy \in (0..(ImgW - 1)) \X (0..(ImgH - 1)) :
         /\ xy[2] + 1 \in DOMAIN bg_removed
         /\ xy[1] + 1 \in DOMAIN bg_removed[xy[2] + 1]
         /\ \E k \in DOMAIN COLORS_HSV[c] :
              InRange(bg_removed[xy[2] + 1][xy[1] + 1],
                      COLORS_HSV[c][k][1], COLORS_HSV[c][k][2]) }

\* centroid of the mask pixels inside the rectangle, (-1,-1) when none is
FindCentroidCropped(mask, rect) ==
  LET inside == { xy \in mask : /\ rect[1][1] <= xy[1] /\ xy[1] < rect[2][1]
                                /\ rect[1][2] <= xy[2] /\ xy[2] < rect[2][2] }
  IN IF inside = {} THEN << -1, -1 >>
     ELSE << SumCoord(inside, 1) \div Cardinality(inside),
             SumCoord(inside, 2) \div Cardinality(inside) >>

\* variant: the annotated image is published before the mask is tested
FindColorCentroidPublishFirst(c) ==
  IF Mask(c) = {}
    THEN [xy |-> << -1, -1 >>, published |-> TRUE]
    ELSE [xy |-> FindCentroidCropped(Mask(c), crop), published |-> TRUE]

\* result of find_color_centroid for colour c: the centroid it returns and
\* whether it published the annotated image on the way
FindColorCentroid(c) ==
  LET mask == Mask(c)
  IN IF mask = {}
       THEN [xy |-> << -1, -1 >>, published |-> FALSE]
       ELSE [xy |-> FindCentroidCropped(mask, crop), published |-> TRUE]

\* ------------------------------------------------------------- deprojection
\* get_3d_coordinates_at_pixel: (X, Y, Z) by the pinhole model, (-1,-1,-1)
\* when there is no depth at the pixel
Get3dCoordinatesAtPixel(x_c, y_c) ==
  IF \/ y_c + 1 \notin DOMAIN depth_image
     \/ x_c + 1 \notin DOMAIN depth_image[y_c + 1]
     \/ camera_intrinsics.fx = 0 \/ camera_intrinsics.fy = 0
    THEN << -1, -1, -1 >>
    ELSE LET Z == depth_image[y_c + 1][x_c + 1]
         IN IF Z = 0 THEN << -1, -1, -1 >>
            ELSE << ((x_c - camera_intrinsics.cx) * Z) \div camera_intrinsics.fx,
                    ((y_c - camera_intrinsics.cy) * Z) \div camera_intrinsics.fy,
                    Z >>

\* ---------------------------------------------------------- broadcast_color
\* variant: the guard forgets the update_colors flag
ShouldUpdateNoFlag(x_c, y_c) == x_c # 0 /\ y_c # 0

\* variant: one non-zero coordinate is enough for the guard
ShouldUpdateEitherCoord(x_c, y_c) == (x_c # 0 \/ y_c # 0) /\ update_colors

\* the guard of the history update
ShouldUpdate(x_c, y_c) == x_c # 0 /\ y_c # 0 /\ update_colors

\* variant: the new centroid is appended and nothing is dropped
ShiftedNoDrop(h, xy) == Append(h, xy)

\* variant: the elements are shifted up and the new centroid is stored first
ShiftedUp(h, xy) == << xy >> \o SubSeq(h, 1, Len(h) - 1)

\* shift all elements down by one and store the new centroid last
Shifted(h, xy) == Append(Tail(h), xy)

\* variant: the row index is left out and every row is written
StoreHistoryAllRows(avg, color_index, history) ==
  [row \in DOMAIN avg |-> history]

\* running_avg after the assignments to row color_index
StoreHistory(avg, color_index, history) ==
  [avg EXCEPT ![color_index] = history]

\* the history of colour c after broadcast_color has looked for it
HistoryAfter(c) ==
  LET xy == FindColorCentroid(c).xy
  IN IF ShouldUpdate(xy[1], xy[2])
       THEN Shifted(running_avg[COLORS[c]], xy)
       ELSE running_avg[COLORS[c]]

\* variant: the deprojection is used even when it is invalid
UsedXyzNoFallback(p) == p

\* the point broadcast_color_frame works with after deprojecting to p
UsedXyz(p) == IF p[1] = -1 THEN prev_xyz ELSE p

\* variant: the fallback is overwritten by every deprojection, valid or not
NextPrevXyzAlways(p) == p

\* prev_xyz after broadcast_color_frame has deprojected to p
NextPrevXyz(p) == IF p[1] = -1 THEN prev_xyz ELSE p

\* variant: the point is sent in camera-optical axes, not remapped
MakeTransformNoRemap(base_frame, child_frame, xyz) ==
  [frame_id |-> base_frame,
   child_frame_id |-> child_frame,
   translation |-> << xyz[1], xyz[2], xyz[3] >>,
   rotation |-> << 0, 0, 0, 1 >>]

\* the TransformStamped that is sent (without its time stamp)
MakeTransform(base_frame, child_frame, xyz) ==
  [frame_id |-> base_frame,
   child_frame_id |-> child_frame,
   translation |-> << xyz[3], -xyz[1], -xyz[2] >>,
   rotation |-> << 0, 0, 0, 1 >>]

\* variant: a transform at the origin is not sent
SendTransformIfMoved(out, t) ==
  IF t.translation = << 0, 0, 0 >> THEN out ELSE Append(out, t)

\* tf_broadcaster.sendTransform
SendTransform(out, t) == Append(out, t)

\* ----------------------------------------------------------------- executor
\* variant: a multi-threaded executor, callbacks start at any time
ExecutorReadyAnyTime == TRUE

\* rclpy.spin: a callback is taken only when none is running
ExecutorReady == pc = "idle"

\* variant: the guard looks at the depth image only
ReadyDepthOnly == ~(Len(depth_image) = 0)

\* the guard of timer_callback: both images have been received
Ready == ~(Len(color_image) = 0 \/ Len(depth_image) = 0)

\* variant: the iteration order depends on the state
LoopColorUnordered(k) ==
  IF update_colors THEN ColorOrder[k] ELSE ColorOrder[NumColors + 1 - k]

\* the colour of the k-th iteration of the loop over COLORS_HSV.keys()
LoopColor(k) == ColorOrder[k]

NoTick == [color_image |-> EmptyImage, depth_image |-> EmptyImage,
           camera_intrinsics |-> NoIntrinsics, update_colors |-> TRUE]

Snapshot == [color_image |-> color_image, depth_image |-> depth_image,
             camera_intrinsics |-> camera_intrinsics,
             update_colors |-> update_colors]

\* variant: the fallback starts at the sentinel of an invalid deprojection
InitialPrevXyzSentinel == << -1, -1, -1 >>

\* np.array([0, 0, 0], dtype=float)
InitialPrevXyz == << 0, 0, 0 >>

Init ==
  /\ color_image = EmptyImage
  /\ depth_image = EmptyImage
  /\ camera_intrinsics = NoIntrinsics
  /\ running_avg = [row \in 0..(NumColors - 1) |-> [j \in 1..HistLen |-> << 0, 0 >>]]
  /\ prev_xyz = InitialPrevXyz
  /\ update_colors = TRUE
  /\ pc = "idle"
  /\ i = 0
  /\ tf_out = << >>
  /\ image_pub = 0
  /\ tick_in = NoTick
  /\ frozen = [row \in 0..(NumColors - 1) |-> [j \in 1..HistLen |-> << 0, 0 >>]]
  /\ ever_found = {}
  /\ toggles = 0
  /\ valid_seen = FALSE

\* ------------------------------------------------------ ingestion callbacks
\* variant: the depth callback stores the image in both image buffers
GetDepthInfoBothBuffers ==
  /\ ExecutorReady
  /\ \E msg \in DepthImages : depth_image' = msg /\ color_image' = msg
  /\ UNCHANGED << camera_intrinsics, running_avg, prev_xyz,
                  update_colors, pc, i, tf_out, image_pub, tick_in, frozen,
                  ever_found, toggles, valid_seen >>

GetDepthInfo ==
  /\ ExecutorReady
  /\ \E msg \in DepthImages : depth_image' = msg
  /\ UNCHANGED << color_image, camera_intrinsics, running_avg, prev_xyz,
                  update_colors, pc, i, tf_out, image_pub, tick_in, frozen,
                  ever_found, toggles, valid_seen >>

GetColorInfo ==
  /\ ExecutorReady
  /\ \E msg \in ColorImages : color_image' = msg
  /\ UNCHANGED << depth_image, camera_intrinsics, running_avg, prev_xyz,
                  update_colors, pc, i, tf_out, image_pub, tick_in, frozen,
                  ever_found, toggles, valid_seen >>

CameraInfoCallback ==
  /\ ExecutorReady
  /\ \E k \in Intrinsics : camera_intrinsics' = k
  /\ UNCHANGED << color_image, depth_image, running_avg, prev_xyz,
                  update_colors, pc, i, tf_out, image_pub, tick_in, frozen,
                  ever_found, toggles, valid_seen >>

\* ------------------------------------------------------------------ service
\* variant: the service switches the updates off instead of toggling them
ToggledOff(flag) == FALSE

\* not self.update_colors
Toggled(flag) == ~flag

ToggleTfPublish ==
  /\ ExecutorReady
  /\ update_colors' = Toggled(update_colors)
  /\ frozen' = running_avg
  /\ toggles' = (toggles + 1) % 2
  /\ UNCHANGED << color_image, depth_image, camera_intrinsics, running_avg,
                  prev_xyz, pc, i, tf_out, image_pub, tick_in, ever_found,
                  valid_seen >>

\* -------------------------------------------------------------------- timer
\* timer_callback is entered: it returns at once unless both images are there
TimerCallback ==
  /\ ExecutorReady
  /\ tick_in' = Snapshot
  /\ IF Ready THEN pc' = "loop" /\ i' = 1 ELSE pc' = "done" /\ i' = 0
  /\ UNCHANGED << color_image, depth_image, camera_intrinsics, running_avg,
                  prev_xyz, update_colors, tf_out, image_pub, frozen,
                  ever_found, toggles, valid_seen >>

\* one iteration of the loop: broadcast_color for the i-th colour, whose
\* detect_illumination call leaves the state of this model alone
BroadcastColor ==
  /\ pc = "loop"
  /\ LET color == LoopColor(i)
         found == FindColorCentroid(color)
         history == HistoryAfter(color)
         median_centroid == MedianCentroid(history)
         p == Get3dCoordinatesAtPixel(median_centroid[1], median_centroid[2])
     IN /\ running_avg' = StoreHistory(running_avg, COLORS[color], history)
        /\ image_pub' = IF found.published THEN image_pub + 1 ELSE image_pub
        /\ prev_xyz' = NextPrevXyz(p)
        /\ tf_out' = SendTransform(tf_out,
                       MakeTransform("camera_depth_frame", ChildFrame[color],
                                     UsedXyz(p)))
        /\ ever_found' = IF found.xy # << -1, -1 >>
                           THEN ever_found \cup {color} ELSE ever_found
        /\ frozen' = IF update_colors THEN running_avg' ELSE frozen
        /\ valid_seen' = (valid_seen \/ p[1] # -1)
  /\ IF i < NumColors THEN pc' = "loop" /\ i' = i + 1
                      ELSE pc' = "done" /\ i' = 0
  /\ UNCHANGED << color_image, depth_image, camera_intrinsics, update_colors,
                  tick_in, toggles >>

\* timer_callback returns to the executor
TimerReturn ==
  /\ pc = "done"
  /\ pc' = "idle"
  /\ tf_out' = << >>
  /\ image_pub' = 0
  /\ tick_in' = NoTick
  /\ UNCHANGED << color_image, depth_image, camera_intrinsics, running_avg,
                  prev_xyz, update_colors, i, frozen, ever_found, toggles,
                  valid_seen >>

Next ==
  \/ GetDepthInfo
  \/ GetColorInfo
  \/ CameraInfoCallback
  \/ ToggleTfPublish
  \/ TimerCallback
  \/ BroadcastColor
  \/ TimerReturn

Spec == Init /\ [][Next]_vars

TypeOK ==
  /\ update_colors \in BOOLEAN
  /\ pc \in {"idle", "loop", "done"}
  /\ i \in 0..NumColors
  /\ \A row \in DOMAIN running_avg : Len(running_avg[row]) = HistLen
  /\ toggles \in {0, 1}
  /\ valid_seen \in BOOLEAN

\* ================================================================ properties
\* observations shared by the properties below
TickWasReady == Len(tick_in.color_image) # 0 /\ Len(tick_in.depth_image) # 0

LastTf(out) == out[Len(out)]

\* the camera-optical point (X, Y, Z) that a transform carries
CarriedPoint(t) == << -t.translation[2], -t.translation[3], t.translation[1] >>

InitialHistory == [j \in 1..HistLen |-> << 0, 0 >>]

\* a centroid that passes the guard of the history update when the flag is set
Accepted(xy) == xy # << -1, -1 >> /\ xy[1] # 0 /\ xy[2] # 0

\* C1: in the step that processes a colour whose centroid search returns the
\* not-found sentinel (-1,-1), the histories (hence the medians) do not change,
\* whatever the flag.
C1_NotFoundLeavesHistory ==
  [][ (pc = "loop" /\ FindColorCentroid(ColorOrder[i]).xy = << -1, -1 >>)
        => /\ running_avg' = running_avg
           /\ MedianCentroid(running_avg'[COLORS[ColorOrder[i]]])
                = MedianCentroid(running_avg[COLORS[ColorOrder[i]]]) ]_vars

\* C2: while update_colors is false, and in the step that sets it again, every
\* history equals what it was just before the flag was cleared.
C2_IdempotentFreeze ==
  [][ ~update_colors => running_avg' = frozen /\ running_avg = frozen ]_vars

\* C2 witness: a tick has run to its end with the flag cleared, offering a
\* centroid that the guard would otherwise have stored, on a history that had
\* already moved.
C2_Witness ==
  /\ ~update_colors
  /\ pc = "done"
  /\ TickWasReady
  /\ \E c \in Colors :
       /\ Accepted(FindColorCentroid(c).xy)
       /\ running_avg[COLORS[c]] # InitialHistory
       /\ LastTf(running_avg[COLORS[c]]) # FindColorCentroid(c).xy

\* C3: a colour whose centroid search has never succeeded has smoothed
\* centroid (0,0).
C3_NeverFoundIsOrigin ==
  \A c \in Colors :
    c \notin ever_found => MedianCentroid(running_avg[COLORS[c]]) = << 0, 0 >>

\* C4: a timer callback that starts while an image is missing goes straight
\* to its return, sends no transform, publishes no image and leaves the
\* histories, the fallback, the flag and the buffers as they were.
C4_NotReadyTickIsNoOp ==
  [][ (\/ (pc = "idle" /\ pc' # "idle"
             /\ (Len(color_image) = 0 \/ Len(depth_image) = 0))
       \/ (pc = "done" /\ ~TickWasReady))
        => /\ pc' \in {"done", "idle"}
           /\ tf_out = << >> /\ tf_out' = << >>
           /\ image_pub = 0 /\ image_pub' = 0
           /\ UNCHANGED << running_avg, prev_xyz, update_colors, color_image,
                           depth_image, camera_intrinsics >> ]_vars

\* C4 witness: a callback that found the depth image but no colour image yet
\* is returning.
C4_Witness ==
  /\ pc = "done"
  /\ ~TickWasReady
  /\ Len(color_image) = 0
  /\ Len(depth_image) # 0

\* C5: in the step of a colour, with p the deprojection at its smoothed
\* centroid: if p is invalid (x = -1) the transform carries prev_xyz and
\* prev_xyz stays; otherwise prev_xyz becomes p and the transform carries p.
\* No other step changes prev_xyz.
C5_SharedFallback ==
  [][ IF pc = "loop" /\ Len(tf_out') = Len(tf_out) + 1
        THEN LET m == MedianCentroid(running_avg'[COLORS[ColorOrder[i]]])
                 p == Get3dCoordinatesAtPixel(m[1], m[2])
             IN IF p[1] = -1
                  THEN /\ prev_xyz' = prev_xyz
                       /\ CarriedPoint(LastTf(tf_out')) = prev_xyz
                  ELSE /\ prev_xyz' = p
                       /\ CarriedPoint(LastTf(tf_out')) = p
        ELSE prev_xyz' = prev_xyz ]_vars

\* C5 witness: in one tick the first colour deprojected validly and the
\* second did not, so the second transform carries the first colour's point.
C5_Witness ==
  /\ pc = "done"
  /\ Len(tf_out) = NumColors
  /\ LET m1 == MedianCentroid(running_avg[COLORS[ColorOrder[1]]])
         m2 == MedianCentroid(running_avg[COLORS[ColorOrder[2]]])
     IN /\ Get3dCoordinatesAtPixel(m1[1], m1[2])[1] # -1
        /\ Get3dCoordinatesAtPixel(m2[1], m2[2])[1] = -1
        /\ CarriedPoint(tf_out[2]) = Get3dCoordinatesAtPixel(m1[1], m1[2])
        /\ prev_xyz = Get3dCoordinatesAtPixel(m1[1], m1[2])

C7_OneImagePerTick ==
  (pc = "done" /\ TickWasReady) => image_pub = 1

\* C7: a timer callback has published the annotated image once for each
\* colour whose mask is not empty, and not at all if an image was missing.
C7_OneImagePerMatchedColor ==
  pc = "done"
    => image_pub = IF TickWasReady
                     THEN Cardinality({ c \in Colors : Mask(c) # {} })
                     ELSE 0

\* C7 witness: a tick in which every colour matched has published as many
\* images as there are colours.
C7_Witness ==
  /\ pc = "done"
  /\ TickWasReady
  /\ image_pub = NumColors
  /\ \A c \in Colors : Mask(c) # {}

\* C8 as stated: the transform of a colour that is not found carries the
\* fallback point as it was before the colour was processed.
C8_NotFoundCarriesFallback ==
  [][ (pc = "loop" /\ Len(tf_out') = Len(tf_out) + 1
         /\ Mask(ColorOrder[i]) = {})
        => CarriedPoint(LastTf(tf_out')) = prev_xyz ]_vars

\* C8: the transform of a colour that is not found carries the fallback
\* point when the deprojection at its smoothed centroid is invalid, and that
\* deprojection when it is valid.
C8_NotFoundCarriesSmoothed ==
  [][ (pc = "loop" /\ Len(tf_out') = Len(tf_out) + 1
         /\ Mask(ColorOrder[i]) = {})
        => LET m == MedianCentroid(running_avg'[COLORS[ColorOrder[i]]])
               p == Get3dCoordinatesAtPixel(m[1], m[2])
           IN CarriedPoint(LastTf(tf_out')) = IF p[1] = -1 THEN prev_xyz ELSE p ]_vars

\* C8 witness: the last colour was not found, its smoothed centroid has no
\* valid deprojection, and its transform carries an earlier valid point.
C8_Witness ==
  /\ pc = "done"
  /\ Len(tf_out) = NumColors
  /\ Mask(ColorOrder[NumColors]) = {}
  /\ LET m == MedianCentroid(running_avg[COLORS[ColorOrder[NumColors]]])
     IN Get3dCoordinatesAtPixel(m[1], m[2])[1] = -1
  /\ CarriedPoint(tf_out[NumColors]) = prev_xyz
  /\ prev_xyz # << 0, 0, 0 >>

\* C9: the transforms sent so far by a running timer callback are those of
\* the first colours of the table, in the order of the table; at its return
\* the child frame names are the whole table in order.
C9_FixedOrder ==
  (pc # "idle" /\ TickWasReady)
    => /\ Len(tf_out) = (IF pc = "loop" THEN i - 1 ELSE NumColors)
       /\ \A k \in DOMAIN tf_out :
            tf_out[k].child_frame_id = ChildFrame[ColorOrder[k]]

\* C9 witness: a tick with the flag cleared has sent the frames of all
\* colours, after histories were filled by earlier ticks.
C9_Witness ==
  /\ pc = "done"
  /\ ~update_colors
  /\ Len(tf_out) = NumColors
  /\ tf_out[1].child_frame_id = ChildFrame[ColorOrder[1]]
  /\ tf_out[NumColors].child_frame_id = ChildFrame[ColorOrder[NumColors]]
  /\ running_avg[COLORS[ColorOrder[1]]] # InitialHistory

\* C10: while a timer callback runs, the colour image, the depth image, the
\* intrinsics and the flag are the ones it found when it began.
C10_Serialized ==
  pc # "idle" => Snapshot = tick_in

\* C10 witness: the loop is about to process its last colour; the first has
\* already changed its history from the same inputs.
C10_Witness ==
  /\ pc = "loop"
  /\ i = NumColors
  /\ Len(tf_out) = NumColors - 1
  /\ Snapshot = tick_in
  /\ running_avg[COLORS[ColorOrder[1]]] # InitialHistory

\* C11: for every colour, each coordinate of the smoothed centroid lies
\* between the smallest and the largest value of that coordinate in the
\* colour's history.
C11_MedianWithinHistory ==
  \A c \in Colors :
    LET h == running_avg[COLORS[c]]
        m == MedianCentroid(h)
    IN \A axis \in 1..2 :
         /\ \E j \in DOMAIN h : h[j][axis] <= m[axis]
         /\ \E j \in DOMAIN h : m[axis] <= h[j][axis]

\* C11 witness: a history whose x values differ from its y values and whose
\* smoothed centroid lies strictly inside the range of the history on an axis.
C11_Witness ==
  \E c \in Colors :
    LET h == running_avg[COLORS[c]]
        m == MedianCentroid(h)
    IN /\ \E j \in DOMAIN h : h[j][1] # h[j][2]
       /\ \E j \in DOMAIN h : h[j][1] < m[1]
       /\ \E j \in DOMAIN h : m[1] < h[j][1]

\* C12: the transform sent in the step of a colour has parent
\* camera_depth_frame, child <colour>_frame, identity rotation and
\* translation (Z, -X, -Y), (X, Y, Z) being the deprojection at the colour's
\* smoothed centroid if it is valid and the fallback otherwise.
C12_TransformContents ==
  [][ (pc = "loop" /\ Len(tf_out') = Len(tf_out) + 1)
        => LET m == MedianCentroid(running_avg'[COLORS[ColorOrder[i]]])
               p == Get3dCoordinatesAtPixel(m[1], m[2])
               P == IF p[1] = -1 THEN prev_xyz ELSE p
               t == LastTf(tf_out')
           IN /\ t.frame_id = "camera_depth_frame"
              /\ t.child_frame_id = ChildFrame[ColorOrder[i]]
              /\ t.rotation = << 0, 0, 0, 1 >>
              /\ t.translation = << P[3], -P[1], -P[2] >> ]_vars

\* C12 witness: a transform has been sent whose point has three different
\* coordinates, none at the origin of the remapped axes.
C12_Witness ==
  /\ pc = "done"
  /\ \E k \in DOMAIN tf_out :
       /\ tf_out[k].translation[1] > 0
       /\ tf_out[k].translation[2] # tf_out[k].translation[3]
       /\ tf_out[k].translation[1] # tf_out[k].translation[3]
       /\ tf_out[k].translation[1] # tf_out[k].translation[2]

\* C13: every colour's history has exactly HistLen entries, and there is one
\* history per colour.
C13_HistoryLength ==
  /\ DOMAIN running_avg = 0..(NumColors - 1)
  /\ \A row \in DOMAIN running_avg : Len(running_avg[row]) = HistLen

\* C13 witness: a history has been shifted until none of its initial entries
\* is left, after the flag has been toggled.
C13_Witness ==
  /\ toggles = 1
  /\ \E row \in DOMAIN running_avg :
       /\ Len(running_avg[row]) = HistLen
       /\ \A j \in DOMAIN running_avg[row] : running_avg[row][j] # << 0, 0 >>

\* C14: update_colors starts true and is true exactly after an even number of
\* toggle requests; a toggle request flips it and changes no history, fallback
\* or buffer, and sends nothing.
C14_ToggleOnlyFlips ==
  [][ /\ (update_colors <=> toggles = 0)
      /\ (update_colors' <=> toggles' = 0)
      /\ toggles' # toggles
           => /\ update_colors' = ~update_colors
              /\ UNCHANGED << running_avg, prev_xyz, color_image, depth_image,
                              camera_intrinsics, tf_out, image_pub, pc >> ]_vars

\* C14 witness: the flag is false after a toggle served when histories and
\* fallback had already moved.
C14_Witness ==
  /\ pc = "idle"
  /\ toggles = 1
  /\ ~update_colors
  /\ prev_xyz # << 0, 0, 0 >>
  /\ \E row \in DOMAIN running_avg :
       \E j \in DOMAIN running_avg[row] : running_avg[row][j] # << 0, 0 >>

\* C15: a step that changes the depth image, the colour image or the
\* intrinsics stores a received value there and changes neither of the other
\* two, nor a history, the fallback or the flag, and sends nothing.
C15_IngestionOwnEntry ==
  [][ /\ depth_image' # depth_image
           => /\ depth_image' \in DepthImages
              /\ UNCHANGED << color_image, camera_intrinsics, running_avg,
                              prev_xyz, update_colors, tf_out, image_pub >>
      /\ color_image' # color_image
           => /\ color_image' \in ColorImages
              /\ UNCHANGED << depth_image, camera_intrinsics, running_avg,
                              prev_xyz, update_colors, tf_out, image_pub >>
      /\ camera_intrinsics' # camera_intrinsics
           => /\ camera_intrinsics' \in Intrinsics
              /\ UNCHANGED << depth_image, color_image, running_avg,
                              prev_xyz, update_colors, tf_out, image_pub >> ]_vars

\* C15 witness: all three buffers hold received values while histories and
\* fallback have already moved and the flag is false.
C15_Witness ==
  /\ pc = "idle"
  /\ depth_image = DepthImageHoles
  /\ color_image = ColorImageB
  /\ camera_intrinsics \in Intrinsics
  /\ ~update_colors
  /\ prev_xyz # << 0, 0, 0 >>
  /\ running_avg[COLORS[ColorOrder[1]]][HistLen] # << 0, 0 >>

\* C16: when the centroid found for a colour passes the guard with the flag
\* true, the colour's history becomes the old one without its first entry
\* and with the centroid as its last; and a history whose entries are all
\* the same centroid has that centroid as smoothed centroid.
C16_ShiftAppend ==
  [][ /\ (pc = "loop" /\ Len(tf_out') = Len(tf_out) + 1 /\ update_colors
            /\ FindColorCentroid(ColorOrder[i]).xy[1] # 0
            /\ FindColorCentroid(ColorOrder[i]).xy[2] # 0)
           => LET old == running_avg[COLORS[ColorOrder[i]]]
                  new == running_avg'[COLORS[ColorOrder[i]]]
              IN /\ Len(new) = Len(old)
                 /\ \A j \in 1..(Len(old) - 1) : new[j] = old[j + 1]
                 /\ new[Len(new)] = FindColorCentroid(ColorOrder[i]).xy
      /\ \A c \in Colors :
           LET h == running_avg'[COLORS[c]]
           IN (\A j \in DOMAIN h : h[j] = h[1]) => MedianCentroid(h) = h[1] ]_vars

\* C16 witness: a colour has just been stored for the HistLen-th time in a
\* row with the same centroid, a real detection, which is now its smoothed
\* centroid.
C16_Witness ==
  /\ pc = "done"
  /\ TickWasReady
  /\ update_colors
  /\ \E c \in Colors :
       LET h == running_avg[COLORS[c]]
       IN /\ Accepted(FindColorCentroid(c).xy)
          /\ \A j \in DOMAIN h : h[j] = FindColorCentroid(c).xy
          /\ MedianCentroid(h) = FindColorCentroid(c).xy

\* C17: in the step of a colour its history is shifted, with the centroid
\* found stored last, if the flag is true and both coordinates of the centroid
\* are non-zero; otherwise the history is left as it was.
C17_UpdateIffGuard ==
  [][ (pc = "loop" /\ Len(tf_out') = Len(tf_out) + 1)
        => LET xy == FindColorCentroid(ColorOrder[i]).xy
               old == running_avg[COLORS[ColorOrder[i]]]
               new == running_avg'[COLORS[ColorOrder[i]]]
           IN IF update_colors /\ xy[1] # 0 /\ xy[2] # 0
                THEN new = Append(Tail(old), xy)
                ELSE new = old ]_vars

\* C17 witness: with the flag true, the first colour was found at a centroid
\* with a zero coordinate, and its history, already moved before, does not
\* end with that centroid.
C17_Witness ==
  /\ pc = "done"
  /\ TickWasReady
  /\ update_colors
  /\ LET xy == FindColorCentroid(ColorOrder[1]).xy
         h == running_avg[COLORS[ColorOrder[1]]]
     IN /\ xy # << -1, -1 >>
        /\ (xy[1] = 0 \/ xy[2] = 0)
        /\ xy # << 0, 0 >>
        /\ h[Len(h)] # xy
        /\ h[Len(h)] # << 0, 0 >>

\* C18: the step of a colour leaves the history, hence the smoothed centroid,
\* of every other colour as it was.
C18_OtherHistoriesKept ==
  [][ (pc = "loop" /\ Len(tf_out') = Len(tf_out) + 1)
        => \A c \in Colors \ {ColorOrder[i]} :
             /\ running_avg'[COLORS[c]] = running_avg[COLORS[c]]
             /\ MedianCentroid(running_avg'[COLORS[c]])
                  = MedianCentroid(running_avg[COLORS[c]]) ]_vars

\* C18 witness: the first colour has just been stored in its history while
\* the history of the second, filled earlier, holds different entries.
C18_Witness ==
  /\ pc = "loop"
  /\ i = 2
  /\ update_colors
  /\ Accepted(FindColorCentroid(ColorOrder[1]).xy)
  /\ running_avg[COLORS[ColorOrder[1]]][HistLen] = FindColorCentroid(ColorOrder[1]).xy
  /\ running_avg[COLORS[ColorOrder[2]]][HistLen] # << 0, 0 >>
  /\ running_avg[COLORS[ColorOrder[2]]] # running_avg[COLORS[ColorOrder[1]]]

\* C19: as long as no deprojection has been valid, the fallback is (0,0,0)
\* and every transform sent carries translation (0,0,0).
C19_OriginUntilValid ==
  ~valid_seen
    => /\ prev_xyz = << 0, 0, 0 >>
       /\ \A k \in DOMAIN tf_out : tf_out[k].translation = << 0, 0, 0 >>

\* C19 witness: a tick has sent the frames of all colours, after histories
\* have moved, and still no deprojection has been valid.
C19_Witness ==
  /\ pc = "done"
  /\ ~valid_seen
  /\ Len(tf_out) = NumColors
  /\ \E row \in DOMAIN running_avg :
       \E j \in DOMAIN running_avg[row] : running_avg[row][j] # << 0, 0 >>

=============================================================================
